---- MODULE Spec2Model ----
(***************************************************************************)
(* Model of sgp.h, the Sega Genesis platform abstraction layer: the tile   *)
(* collision query SGP_PlayerLevelCollision with its per-entity static     *)
(* cache (prev_collide_flags, prev_player_x, prev_player_y), the camera    *)
(* (sgp.camera) with the commands it emits, and the tile-solidity helpers. *)
(*                                                                         *)
(* Integer widths follow the C types: player_x/player_y are s16, the       *)
(* cached positions are u16, array indices are s16, and every arithmetic   *)
(* expression is evaluated in (32-bit) int after the usual promotions.     *)
(* A bitset (u16 flags) is modelled as the set of its one-bit masks.       *)
(***************************************************************************)
EXTENDS Integers, Sequences, FiniteSets, TLC

----------------------------------------------------------------------------
(* Program constants                                                       *)

COLLIDE_DOWN == 1

COLLIDE_UP == 2

COLLIDE_LEFT == 4

COLLIDE_RIGHT == 8

SGP_DIR_UP == 1

SGP_DIR_DOWN == 2

SGP_DIR_LEFT == 4

SGP_DIR_RIGHT == 8

SGP_MAX_ENTITIES == 2

SOLID_TILE == 1

COLLISION_TILE_SIZE_MASK == 15

PIXELS_TO_TILE_SHIFT == 4

screenWidth == 320

screenHeight == 224

BG_B == 1

JOY_1 == 0

JOY_2 == 1

BUTTON_A == 64

BUTTON_B == 16

\* u16 invalid_joy = 5;   (neither JOY_1 nor JOY_2)
InvalidJoy == 5

\* The 8x8 level of the collision tests, row-major.
test_level_data ==
    << 1, 1, 1, 1, 1, 1, 1, 1,
       1, 0, 0, 0, 0, 0, 0, 1,
       1, 0, 1, 1, 1, 1, 0, 1,
       1, 0, 1, 0, 0, 1, 0, 1,
       1, 0, 1, 0, 0, 1, 0, 1,
       1, 0, 1, 1, 1, 1, 0, 1,
       1, 0, 0, 0, 0, 0, 0, 1,
       1, 1, 1, 1, 1, 1, 1, 1 >>

\* SGPLevelCollisionData: `length` is the number of tiles per row.
test_level == [length |-> 8, collision_data |-> test_level_data]

----------------------------------------------------------------------------
(* Bounds of the model: the inputs the queries are drawn from              *)

\* Pixel offsets 0..MaxOffset are added to the tile-aligned position (16,16).
MaxOffset == 2

\* Box heights are 16 - k for k in 0..MaxShrink.
MaxShrink == 1

\* Tile columns and rows of the tile-aligned query positions (-1 is outside).
ProbeCols == {-1, 1, 2}

ProbeRows == {-1, 1, 2}

BoxWidth == 16

BoxHeight == 16

Positions ==
    {<<16 * c, 16 * r>> : c \in ProbeCols, r \in ProbeRows}
        \cup {<<16 + ox, 16 + oy>> : ox \in 0..MaxOffset, oy \in 0..MaxOffset}

Heights == {BoxHeight - k : k \in 0..MaxShrink}

Directions == {SGP_DIR_UP, SGP_DIR_DOWN, SGP_DIR_LEFT, SGP_DIR_RIGHT}

Entities == 0..(SGP_MAX_ENTITIES - 1)

\* What a read outside collision_data may return: only whether the byte equals
\* SOLID_TILE matters, so one other value stands for all the others.
TileValues == {0, SOLID_TILE}

\* The positions of the multi-entity queries (test_multiplayer_support's two,
\* and one more).
SharedPositions == {<<0, 16>>, <<16, 16>>, <<32, 32>>}

\* Entity ids of the queries that include ids outside the table: a valid one
\* and the first MaxStray ids past the end.
MaxStray == 1

StrayEntities == {0} \cup (SGP_MAX_ENTITIES..(SGP_MAX_ENTITIES + MaxStray - 1))

\* The positions of those queries (test_multiplayer_support's two).
StrayPositions == {<<0, 16>>, <<16, 16>>}

\* What a word of memory outside the three static arrays may hold.
StrayWords == {0, 20}

\* A Map* argument: NULL, or a map of w x h metatiles.
NULL == [null |-> TRUE, w |-> 0, h |-> 0]

Map(w, h) == [null |-> FALSE, w |-> w, h |-> h]

\* Tile coordinates of the solidity queries: -1..MaxTile on both axes.
MaxTile == 8

TileCoords == (-1)..MaxTile

\* The grid of the helper test, a grid whose data_length is not a multiple of
\* its row_length, and the 8x8 level.
TileGrids ==
    [smoke |-> [row_length |-> 2, data_length |-> 4, collision_data |-> <<1, 0, 1, 0>>],
     ragged |-> [row_length |-> 2, data_length |-> 5, collision_data |-> <<1, 0, 1, 0, 1>>],
     border |-> [row_length |-> 8, data_length |-> 64, collision_data |-> test_level_data]]

\* The maps bound to the camera, in metatiles: none, the 32x16 map of the
\* camera tests, one smaller than the screen, one wider than 32767 pixels and
\* one of 65536 pixels.
Maps == {NULL, Map(32, 16), Map(2, 1), Map(300, 2), Map(512, 16)}

\* World positions of the followed target (those of the camera tests, and one
\* inside the 300-metatile map).
Targets == {<<0, 0>>, <<320, 224>>, <<2048, 1024>>, <<4095, 2047>>, <<38000, 128>>}

\* sprite_width and sprite_height of the followed target.
SpriteSizes == {0, 16}

\* Arguments of SGP_UpdateCameraPosition.
DirectPositions == {<<123, 456>>, <<5000, 3000>>}

\* The two controllers, and what a controller may hold when it is read.
Joypads == {JOY_1, JOY_2}

PadReadings == {0, BUTTON_A, BUTTON_B, BUTTON_A + BUTTON_B}

\* The single buttons, the masks and the controller ids of the button queries.
Buttons == {BUTTON_A, BUTTON_B}

ButtonMasks == {0, BUTTON_A, BUTTON_B, BUTTON_A + BUTTON_B}

JoyIds == Joypads \cup {InvalidJoy}

\* An SGPBox: u16 x, y, w, h.
SGPBox(x, y, w, h) == [x |-> x, y |-> y, w |-> w, h |-> h]

\* Boxes of positive size, side by side, overlapping, and at the top of the
\* u16 range, where x + w exceeds 65535.
Boxes == {SGPBox(x, y, w, 10) : x \in {0, 10, 15, 65530, 65535}, y \in {0, 10},
                                w \in {10, 20}}

\* A shake lasts 0..MaxDuration frames.
MaxDuration == 2

\* The s16 intensities of a shake: both signs, zero and the least s16.
Intensities == {4, -4, 0, -32768}

\* Arguments of SGP_CameraSetVerticalScrollLimit, in tiles.
VerticalLimits == {16, 64}

\* What the two u16 fields read through a null Map* may hold.
NullWords == {0, 3}

\* How the build places the three static arrays: one after the other in the
\* order of their declarations, in the opposite order, or apart from each other.
Layouts == {"ascending", "descending", "apart"}

----------------------------------------------------------------------------
(* C arithmetic                                                            *)

\* Conversion of an int to u16 (assignment to a u16 object).
ToU16(v) == v % 65536

\* Conversion of an int to s16 (assignment to an s16 object, wrapping).
ToS16(v) == ((v + 32768) % 65536) - 32768

\* A u32 is held as its two 16-bit halves <<high, low>>.
\* Conversion of an int to u32.
ToU32(v) == <<(v \div 65536) % 65536, v % 65536>>

\* u + d modulo 2^32, for a u32 u and an int d (converted to u32).
AddU32(u, d) ==
    LET low == u[2] + ToU32(d)[2]
        high == u[1] + ToU32(d)[1] + (low \div 65536)
    IN  <<high % 65536, low % 65536>>

\* lo <= u <= hi as numbers, for a u32 u and ints lo, hi.
BetweenU32(u, lo, hi) ==
    /\ u[1] < 32768
    /\ lo <= u[1] * 65536 + u[2]
    /\ u[1] * 65536 + u[2] <= hi

\* v >> n on a signed int (arithmetic shift: floor division by 2^n).
ShiftRight(v, n) == v \div (2 ^ n)

\* v & 1 on a two's complement int.
BitAnd1(v) == v % 2

\* (v & m) != 0 for a one-bit mask m and v >= 0.
HasBit(v, m) == (v \div m) % 2 = 1

\* Bitwise flag helper macros, on bitsets as sets of one-bit masks.
SET_ACTIVE(flags, mask) == flags \cup mask

SET_INACTIVE(flags, mask) == flags \ mask

FLAG_IS_ACTIVE(flags, mask) == (flags \cap mask) # {}

\* The guard `v & COLLISION_TILE_SIZE_MASK != 0`: != binds tighter than &, so
\* the right operand is the int (COLLISION_TILE_SIZE_MASK != 0), that is 1.
MaskedNonZero(v) ==
    IF COLLISION_TILE_SIZE_MASK # 0 THEN BitAnd1(v) # 0 ELSE FALSE

----------------------------------------------------------------------------
(* State                                                                   *)

VARIABLES
    prev_collide_flags,  \* static u16 prev_collide_flags[SGP_MAX_ENTITIES]
    prev_player_x,       \* static u16 prev_player_x[SGP_MAX_ENTITIES]
    prev_player_y,       \* static u16 prev_player_y[SGP_MAX_ENTITIES]
    call,                \* arguments of the last query
    ret,                 \* its return value
    path,                \* where it returned: "cache", "guard", "tiles", "none"
    reads,               \* indices at which it read collision_data
    reversal,            \* history: the last query reversed the direction of the
                         \* one before it, which had returned true for the same
                         \* entity at the same position
    layout,              \* placement of the three static arrays in memory
    camera,              \* sgp.camera
    cam_call,            \* the last camera call: name, arguments, result
    emitted,             \* the commands it sent to the SGDK, in order
    halted,              \* the program has trapped
    tile_call,           \* the last tile-solidity query and its results
    input,               \* sgp.input
    in_call,             \* the last input call: name, what the pads held when
                         \* it read them, and what they held at the poll before
    btn_call,            \* the button query made since the last poll, if any:
                         \* its arguments and what the three functions returned
    box_call             \* the last SGP_CheckCollision call and its result

colvars == <<prev_collide_flags, prev_player_x, prev_player_y, call, ret, path, reads,
             reversal>>

camvars == <<camera, cam_call, emitted, halted>>

inpvars == <<input, in_call, btn_call>>

vars == <<prev_collide_flags, prev_player_x, prev_player_y, call, ret, path, reads,
          reversal, layout, camera, cam_call, emitted, halted, tile_call, input,
          in_call, btn_call, box_call>>

NoCall ==
    [player_index |-> 0, player_x |-> 0, player_y |-> 0, player_width |-> 0,
     player_height |-> 0, direction |-> 0]

\* sgp.camera as SGP_init leaves it.
InitialCamera ==
    [current_x |-> ToU32(0), current_y |-> ToU32(0), active |-> FALSE, map |-> NULL,
     map_height |-> 0, map_width |-> 0, max_vertical_scroll |-> 32]

\* The record of one camera call. ran: it got past its guard; null_read: it
\* read a field through a null Map*.
CamCall(op, args, ran, r, null_read) ==
    [op |-> op, args |-> args, ran |-> ran, ret |-> r, null_read |-> null_read]

NoTileCall ==
    [grid |-> "none", tx |-> 0, ty |-> 0, oob_x_solid |-> FALSE, oob_y_solid |-> FALSE,
     solid |-> FALSE, rows |-> 0]

\* sgp.input as SGP_init leaves it.
InitialInput ==
    [joy1_state |-> 0, joy2_state |-> 0, joy1_previous |-> 0, joy2_previous |-> 0]

\* The record of one input call. pad: what each controller held when the call
\* read it; before: the same for the poll before it, if there was one.
InCall(op, pad, before) == [op |-> op, pad |-> pad, before |-> before]

NoPad == [joy \in Joypads |-> 0]

NoBoxCall ==
    [asked |-> FALSE, a |-> SGPBox(0, 0, 0, 0), b |-> SGPBox(0, 0, 0, 0), ret |-> FALSE]

NoButtonCall ==
    [asked |-> FALSE, joy |-> 0, button |-> 0, pressed |-> FALSE, released |-> FALSE,
     down |-> FALSE]

\* The state at program start, the arrays being placed in one of the ways L.
Start(L) ==
    /\ prev_collide_flags = [e \in Entities |-> {}]
    /\ prev_player_x = [e \in Entities |-> 0]
    /\ prev_player_y = [e \in Entities |-> 0]
    /\ call = NoCall
    /\ ret = FALSE
    /\ path = "init"
    /\ reads = {}
    /\ reversal = FALSE
    /\ layout \in L
    /\ camera = InitialCamera
    /\ cam_call = CamCall("none", <<>>, FALSE, 0, FALSE)
    /\ emitted = <<>>
    /\ halted = FALSE
    /\ tile_call = NoTileCall
    /\ input = InitialInput
    /\ in_call = InCall("none", NoPad, <<>>)
    /\ btn_call = NoButtonCall
    /\ box_call = NoBoxCall

Init == Start({"apart"})

----------------------------------------------------------------------------
(* SGP_PlayerLevelCollision                                                *)

\* level->collision_data[ind]: the values the read may yield. An index outside
\* the array is an out-of-bounds read, which yields whatever lies there.
ReadTile(level, ind) ==
    IF ind \in 0..(Len(level.collision_data) - 1)
    THEN {level.collision_data[ind + 1]}
    ELSE TileValues

\* s16 arr_ind = tile_x + (tile_y * level->length)
ArrInd(level, tile_x, tile_y) == ToS16(tile_x + (tile_y * level.length))

\* A fault: one record shared by every entity.
SharedSlot(player_index) == 0

\* The element of the static arrays that player_index selects.
Slot(player_index) == player_index

\* A fault: the opposing flag is left as it was.
KeepOpposite(flags, mask) == flags

\* First statement of each branch: the flag of the opposing direction on the
\* same axis is cleared.
ClearOpposite(flags, mask) == SET_INACTIVE(flags, {mask})

\* The direction opposite to a single direction, on the same axis.
Opposite(direction) ==
    CASE direction = SGP_DIR_UP -> SGP_DIR_DOWN
      [] direction = SGP_DIR_DOWN -> SGP_DIR_UP
      [] direction = SGP_DIR_LEFT -> SGP_DIR_RIGHT
      [] direction = SGP_DIR_RIGHT -> SGP_DIR_LEFT
      [] OTHER -> 0

\* The value of a call: the entity's record after it, what it returned, the
\* return statement it left by and the indices it read.
Outcome(flags, x, y, r, p, rd) ==
    [flags |-> flags, x |-> x, y |-> y, ret |-> r, path |-> p, reads |-> rd]

\* The flags after a probe that found `hit`.
Flagged(flags, mask, hit) ==
    IF hit THEN SET_ACTIVE(flags, {mask}) ELSE SET_INACTIVE(flags, {mask})

\* Tail shared by the four branches: both tiles are read, the position is
\* stored (into u16), the direction's flag is set or cleared and returned.
\* The same cell read twice yields the same value.
Probe(flags, player_x, player_y, level, ind1, ind2, mask) ==
    UNION { { Outcome(Flagged(flags, mask, type1 = SOLID_TILE \/ type2 = SOLID_TILE),
                      ToU16(player_x), ToU16(player_y),
                      FLAG_IS_ACTIVE(Flagged(flags, mask,
                                             type1 = SOLID_TILE \/ type2 = SOLID_TILE),
                                     {mask}),
                      "tiles", {ind1, ind2})
              : type2 \in IF ind2 = ind1 THEN {type1} ELSE ReadTile(level, ind2) }
            : type1 \in ReadTile(level, ind1) }

\* if (direction & SGP_DIR_UP)
CollideUp(flags, px, py, player_x, player_y, player_width, player_height, level) ==
    LET f == ClearOpposite(flags, COLLIDE_DOWN)
        tile_y_top == ToS16(ShiftRight(player_y - 1, PIXELS_TO_TILE_SHIFT))
        tile_x_left == ToS16(ShiftRight(player_x + 1, PIXELS_TO_TILE_SHIFT))
        tile_x_right == ToS16(ShiftRight(player_x + player_width - 1, PIXELS_TO_TILE_SHIFT))
    IN  IF py = player_y /\ px = player_x /\ FLAG_IS_ACTIVE(f, {COLLIDE_UP})
        THEN {Outcome(f, px, py, TRUE, "cache", {})}
        ELSE IF MaskedNonZero(player_y)
        THEN {Outcome(f, px, py, FALSE, "guard", {})}
        ELSE Probe(f, player_x, player_y, level,
                   ArrInd(level, tile_x_left, tile_y_top),
                   ArrInd(level, tile_x_right, tile_y_top), COLLIDE_UP)

\* else if (direction & SGP_DIR_DOWN)
CollideDown(flags, px, py, player_x, player_y, player_width, player_height, level) ==
    LET f == ClearOpposite(flags, COLLIDE_UP)
        tile_y_bottom == ToS16(ShiftRight(player_y + player_height, PIXELS_TO_TILE_SHIFT))
        tile_x_left == ToS16(ShiftRight(player_x + 1, PIXELS_TO_TILE_SHIFT))
        tile_x_right == ToS16(ShiftRight(player_x + player_width - 1, PIXELS_TO_TILE_SHIFT))
    IN  IF MaskedNonZero(player_y + player_height)
        THEN {Outcome(f, px, py, FALSE, "guard", {})}
        ELSE IF py = player_y /\ FLAG_IS_ACTIVE(f, {COLLIDE_DOWN})
        THEN {Outcome(f, px, py, TRUE, "cache", {})}
        ELSE Probe(f, player_x, player_y, level,
                   ArrInd(level, tile_x_left, tile_y_bottom),
                   ArrInd(level, tile_x_right, tile_y_bottom), COLLIDE_DOWN)

\* if (direction & SGP_DIR_LEFT)
CollideLeft(flags, px, py, player_x, player_y, player_width, player_height, level) ==
    LET f == ClearOpposite(flags, COLLIDE_RIGHT)
        tile_y_top == ToS16(ShiftRight(player_y, PIXELS_TO_TILE_SHIFT))
        tile_y_bottom == ToS16(ShiftRight(player_y + player_height - 1, PIXELS_TO_TILE_SHIFT))
        tile_x_left == ToS16(ShiftRight(player_x - 1, PIXELS_TO_TILE_SHIFT))
    IN  IF px = player_x /\ py = player_y /\ FLAG_IS_ACTIVE(f, {COLLIDE_LEFT})
        THEN {Outcome(f, px, py, TRUE, "cache", {})}
        ELSE IF MaskedNonZero(player_x)
        THEN {Outcome(f, px, py, FALSE, "guard", {})}
        ELSE Probe(f, player_x, player_y, level,
                   ArrInd(level, tile_x_left, tile_y_top),
                   ArrInd(level, tile_x_left, tile_y_bottom), COLLIDE_LEFT)

\* else if (direction & SGP_DIR_RIGHT)
CollideRight(flags, px, py, player_x, player_y, player_width, player_height, level) ==
    LET f == ClearOpposite(flags, COLLIDE_LEFT)
        tile_y_top == ToS16(ShiftRight(player_y, PIXELS_TO_TILE_SHIFT))
        tile_y_bottom == ToS16(ShiftRight(player_y + player_height - 1, PIXELS_TO_TILE_SHIFT))
        tile_x_right == ToS16(ShiftRight(player_x + player_width, PIXELS_TO_TILE_SHIFT))
    IN  IF px = player_x /\ py = player_y /\ FLAG_IS_ACTIVE(f, {COLLIDE_RIGHT})
        THEN {Outcome(f, px, py, TRUE, "cache", {})}
        ELSE IF MaskedNonZero(player_x + player_width)
        THEN {Outcome(f, px, py, FALSE, "guard", {})}
        ELSE Probe(f, player_x, player_y, level,
                   ArrInd(level, tile_x_right, tile_y_top),
                   ArrInd(level, tile_x_right, tile_y_bottom), COLLIDE_RIGHT)

\* The flags with which the horizontal branches are reached: the else of the
\* UP / DOWN chain clears both vertical flags.
NotVertical(flags) == SET_INACTIVE(flags, {COLLIDE_DOWN, COLLIDE_UP})

\* The body of SGP_PlayerLevelCollision on one entity's record: the set of
\* outcomes the call can have (one, unless it reads outside the array).
Collide(flags, px, py, player_x, player_y, player_width, player_height, level, direction) ==
    IF HasBit(direction, SGP_DIR_UP)
    THEN CollideUp(flags, px, py, player_x, player_y, player_width, player_height, level)
    ELSE IF HasBit(direction, SGP_DIR_DOWN)
    THEN CollideDown(flags, px, py, player_x, player_y, player_width, player_height, level)
    ELSE IF HasBit(direction, SGP_DIR_LEFT)
    THEN CollideLeft(NotVertical(flags), px, py, player_x, player_y, player_width,
                     player_height, level)
    ELSE IF HasBit(direction, SGP_DIR_RIGHT)
    THEN CollideRight(NotVertical(flags), px, py, player_x, player_y, player_width,
                      player_height, level)
    ELSE {Outcome(SET_INACTIVE(NotVertical(flags), {COLLIDE_LEFT, COLLIDE_RIGHT}),
                  px, py, FALSE, "none", {})}

\* The one-bit masks of a u16.
Masks == {2 ^ k : k \in 0..15}

\* The u16 whose set bits are the masks in flags, from bit k upwards.
RECURSIVE WordFrom(_, _)
WordFrom(flags, k) ==
    IF k > 15 THEN 0
    ELSE (IF 2 ^ k \in flags THEN 2 ^ k ELSE 0) + WordFrom(flags, k + 1)

WordOf(flags) == WordFrom(flags, 0)

\* The bitset of a u16.
FlagsOf(word) == {m \in Masks : HasBit(word, m)}

\* No object of the three static arrays.
Elsewhere == <<"elsewhere", 0>>

\* The order in which a contiguous layout places the arrays.
ArrayOrder(l) ==
    IF l = "ascending" THEN <<"flags", "x", "y">> ELSE <<"y", "x", "flags">>

\* The object that array[player_index] designates for an index past the end of
\* the array: the element of a following array that lies at that distance, if
\* the arrays are contiguous and there is one.
StrayCell(l, array, player_index) ==
    IF l = "apart" THEN Elsewhere
    ELSE LET order == ArrayOrder(l)
             at == CHOOSE n \in 1..3 : order[n] = array
             word == (at - 1) * SGP_MAX_ENTITIES + player_index
         IN  IF word < 3 * SGP_MAX_ENTITIES
             THEN <<order[(word \div SGP_MAX_ENTITIES) + 1], word % SGP_MAX_ENTITIES>>
             ELSE Elsewhere

\* The u16 held by a cell; junk stands for what lies elsewhere.
LoadWord(cell, junk) ==
    CASE cell[1] = "flags" -> WordOf(prev_collide_flags[cell[2]])
      [] cell[1] = "x" -> prev_player_x[cell[2]]
      [] cell[1] = "y" -> prev_player_y[cell[2]]
      [] OTHER -> junk

\* The u16 held by a cell of the arrays after a call through the stray cells
\* cf, cx, cy that left the outcome out.
StoredWord(cell, cf, cx, cy, out) ==
    IF cell = cf THEN WordOf(out.flags)
    ELSE IF cell = cx THEN out.x
    ELSE IF cell = cy THEN out.y
    ELSE LoadWord(cell, 0)

\* The call with a player_index past the end of the arrays: every
\* array[player_index] is an access outside its array.
StrayAccess(player_index, player_x, player_y, player_width, player_height, level, direction) ==
    LET cf == StrayCell(layout, "flags", player_index)
        cx == StrayCell(layout, "x", player_index)
        cy == StrayCell(layout, "y", player_index)
    IN  \E jf \in (IF cf = Elsewhere THEN StrayWords ELSE {0}),
           jx \in (IF cx = Elsewhere THEN StrayWords ELSE {0}),
           jy \in (IF cy = Elsewhere THEN StrayWords ELSE {0}) :
            \E out \in Collide(FlagsOf(LoadWord(cf, jf)), LoadWord(cx, jx),
                               LoadWord(cy, jy), player_x, player_y, player_width,
                               player_height, level, direction) :
                /\ prev_collide_flags' =
                       [e \in Entities |->
                           IF <<"flags", e>> \in {cx, cy}
                           THEN FlagsOf(StoredWord(<<"flags", e>>, cf, cx, cy, out))
                           ELSE prev_collide_flags[e]]
                /\ prev_player_x' =
                       [e \in Entities |-> StoredWord(<<"x", e>>, cf, cx, cy, out)]
                /\ prev_player_y' =
                       [e \in Entities |-> StoredWord(<<"y", e>>, cf, cx, cy, out)]
                /\ ret' = out.ret
                /\ path' = out.path
                /\ reads' = out.reads

SGP_PlayerLevelCollision(player_index, player_x, player_y, player_width, player_height, level, direction) ==
    /\ IF player_index \in Entities
       THEN \E out \in Collide(prev_collide_flags[Slot(player_index)],
                               prev_player_x[Slot(player_index)],
                               prev_player_y[Slot(player_index)],
                               player_x, player_y, player_width, player_height, level,
                               direction) :
                /\ prev_collide_flags' =
                       [prev_collide_flags EXCEPT ![Slot(player_index)] = out.flags]
                /\ prev_player_x' = [prev_player_x EXCEPT ![Slot(player_index)] = out.x]
                /\ prev_player_y' = [prev_player_y EXCEPT ![Slot(player_index)] = out.y]
                /\ ret' = out.ret
                /\ path' = out.path
                /\ reads' = out.reads
       ELSE StrayAccess(player_index, player_x, player_y, player_width, player_height,
                        level, direction)
    /\ call' = [player_index |-> player_index, player_x |-> player_x,
                player_y |-> player_y, player_width |-> player_width,
                player_height |-> player_height, direction |-> direction]
    /\ reversal' = /\ path # "init"
                   /\ ret
                   /\ call.player_index = player_index
                   /\ call.player_x = player_x
                   /\ call.player_y = player_y
                   /\ direction = Opposite(call.direction)
    /\ UNCHANGED <<layout, camvars, tile_call, inpvars, box_call>>

----------------------------------------------------------------------------
(* Tile-solidity helpers                                                   *)

\* Number of complete rows of the grid.
SGP_LevelTotalRows(level) == level.data_length \div level.row_length

\* A fault: the row is tested before the column.
RowFirstTileIsSolid(level, tx, ty, oob_x_solid, oob_y_solid) ==
    IF ty \notin 0..(SGP_LevelTotalRows(level) - 1) THEN oob_y_solid
    ELSE IF tx \notin 0..(level.row_length - 1) THEN oob_x_solid
    ELSE level.collision_data[ty * level.row_length + tx + 1] = SOLID_TILE

\* Whether tile (tx, ty) is solid, under one out-of-bounds policy per axis.
SGP_TileIsSolid(level, tx, ty, oob_x_solid, oob_y_solid) ==
    IF tx \notin 0..(level.row_length - 1) THEN oob_x_solid
    ELSE IF ty \notin 0..(SGP_LevelTotalRows(level) - 1) THEN oob_y_solid
    ELSE LET index == ty * level.row_length + tx
         IN  IF index >= level.data_length THEN oob_x_solid \/ oob_y_solid
             ELSE level.collision_data[index + 1] = SOLID_TILE

\* One query of both helpers on the grid named grid.
TileQuery(grid, tx, ty, oob_x_solid, oob_y_solid) ==
    /\ tile_call' =
           [grid |-> grid, tx |-> tx, ty |-> ty, oob_x_solid |-> oob_x_solid,
            oob_y_solid |-> oob_y_solid,
            solid |-> SGP_TileIsSolid(TileGrids[grid], tx, ty, oob_x_solid, oob_y_solid),
            rows |-> SGP_LevelTotalRows(TileGrids[grid])]
    /\ UNCHANGED <<colvars, layout, camvars, inpvars, box_call>>

----------------------------------------------------------------------------
(* Camera                                                                  *)

\* static inline u16 SGP_MetatilesToPixels(u16 x) { return x << 7; }
SGP_MetatilesToPixels(x) == ToU16(x * (2 ^ 7))

\* A call of an SGDK function with its integer arguments.
Command(cmd, args) == [cmd |-> cmd, args |-> args]

\* A fault: the vertical scroll limit is left as it was.
InitKeepingLimit ==
    /\ ~halted
    /\ input' = InitialInput
    /\ camera' = [InitialCamera EXCEPT !.max_vertical_scroll = camera.max_vertical_scroll]
    /\ cam_call' = CamCall("SGP_init", <<>>, TRUE, 0, FALSE)
    /\ in_call' = InCall("SGP_init", NoPad, <<>>)
    /\ btn_call' = NoButtonCall
    /\ emitted' = <<>>
    /\ UNCHANGED <<halted, colvars, layout, tile_call, box_call>>

SGP_init ==
    /\ ~halted
    /\ input' = InitialInput
    /\ camera' = InitialCamera
    /\ cam_call' = CamCall("SGP_init", <<>>, TRUE, 0, FALSE)
    /\ in_call' = InCall("SGP_init", NoPad, <<>>)
    /\ btn_call' = NoButtonCall
    /\ emitted' = <<>>
    /\ UNCHANGED <<halted, colvars, layout, tile_call, box_call>>

\* With a null map the reads of map->h and map->w go through the null
\* pointer: the program traps there, or goes on with what the reads yield.
SGP_CameraInit(map) ==
    /\ ~halted
    /\ IF map.null
       THEN \/ /\ camera' = [camera EXCEPT !.map = map]
               /\ cam_call' = CamCall("SGP_CameraInit", <<>>, FALSE, 0, TRUE)
               /\ halted' = TRUE
            \/ \E h \in NullWords, w \in NullWords :
                   /\ camera' = [camera EXCEPT !.map = map,
                                               !.map_height = SGP_MetatilesToPixels(h),
                                               !.map_width = SGP_MetatilesToPixels(w),
                                               !.active = TRUE]
                   /\ cam_call' = CamCall("SGP_CameraInit", <<>>, TRUE, 0, TRUE)
                   /\ UNCHANGED halted
       ELSE /\ camera' = [camera EXCEPT !.map = map,
                                        !.map_height = SGP_MetatilesToPixels(map.h),
                                        !.map_width = SGP_MetatilesToPixels(map.w),
                                        !.active = TRUE]
            /\ cam_call' = CamCall("SGP_CameraInit", <<map.w, map.h>>, TRUE, 1, FALSE)
            /\ UNCHANGED halted
    /\ emitted' = <<>>
    /\ UNCHANGED <<colvars, layout, tile_call, inpvars, box_call>>

\* if (new_camera_x < 0) new_camera_x = 0;
ClampLow(v) == IF v < 0 THEN 0 ELSE v

\* A fault: no upper clamp.
NoClampHigh(v, limit) == v

\* if (new_camera_x > limit) new_camera_x = limit;   (new_camera_x is s16)
ClampHigh(v, limit) == IF v > limit THEN ToS16(limit) ELSE v

\* The s16 new_camera_x (or _y) after both clamps.
NewCamera(target_map, screen, sprite_size, map_size) ==
    ClampHigh(ClampLow(ToS16(target_map - (screen \div 2) + (sprite_size \div 2))),
              map_size - screen)

\* A fault: the call goes on whatever the camera state.
FollowNeverSkipped(cam) == FALSE

\* if (!sgp.camera.active) return;
FollowSkipped(cam) == ~cam.active

\* A fault: the position is taken to have changed on every call.
AlwaysDiffers(current_x, current_y, new_camera_x, new_camera_y) == TRUE

\* if (sgp.camera.current_x != new_camera_x || sgp.camera.current_y != new_camera_y)
\* (the s16 operands are converted to the u32 of the fields)
Differs(current_x, current_y, new_camera_x, new_camera_y) ==
    current_x # ToU32(new_camera_x) \/ current_y # ToU32(new_camera_y)

\* target_x, target_y: the ints that F32_toInt yields for the target.
SGP_CameraFollowTarget(target_x, target_y, sprite, sprite_width, sprite_height) ==
    /\ ~halted
    /\ IF FollowSkipped(camera)
       THEN /\ UNCHANGED camera
            /\ emitted' = <<>>
       ELSE LET target_x_map == ToU16(target_x)
                target_y_map == ToU16(target_y)
                new_camera_x == NewCamera(target_x_map, screenWidth, sprite_width,
                                          camera.map_width)
                new_camera_y == NewCamera(target_y_map, screenHeight, sprite_height,
                                          camera.map_height)
                moved == Differs(camera.current_x, camera.current_y,
                                 new_camera_x, new_camera_y)
                bg_hscroll == ToS16(ShiftRight(0 - new_camera_x, 3))
                tiles_y == ToS16(ShiftRight(new_camera_y, 3))
                bg_vscroll == IF tiles_y > 32 THEN 32 ELSE tiles_y
                scroll ==
                    IF moved
                    THEN << Command("MAP_scrollTo",
                                    <<ToU32(new_camera_x), ToU32(new_camera_y)>>),
                            Command("VDP_setHorizontalScroll", <<BG_B, bg_hscroll>>),
                            Command("VDP_setVerticalScroll", <<BG_B, bg_vscroll>>) >>
                    ELSE <<>>
                place ==
                    IF sprite
                    THEN << Command("SPR_setPosition",
                                    <<ToS16(target_x_map - new_camera_x),
                                      ToS16(target_y_map - new_camera_y)>>) >>
                    ELSE <<>>
            IN  /\ camera' = IF moved
                             THEN [camera EXCEPT !.current_x = ToU32(new_camera_x),
                                                 !.current_y = ToU32(new_camera_y)]
                             ELSE camera
                /\ emitted' = scroll \o place
    /\ cam_call' = CamCall("SGP_CameraFollowTarget",
                           <<target_x, target_y, sprite_width, sprite_height,
                             IF sprite THEN 1 ELSE 0>>,
                           ~FollowSkipped(camera), 0, FALSE)
    /\ UNCHANGED <<halted, colvars, layout, tile_call, inpvars, box_call>>

SGP_activateCamera ==
    /\ ~halted
    /\ camera' = [camera EXCEPT !.active = TRUE]
    /\ cam_call' = CamCall("SGP_activateCamera", <<>>, TRUE, 0, FALSE)
    /\ emitted' = <<>>
    /\ UNCHANGED <<halted, colvars, layout, tile_call, inpvars, box_call>>

SGP_deactivateCamera ==
    /\ ~halted
    /\ camera' = [camera EXCEPT !.active = FALSE]
    /\ cam_call' = CamCall("SGP_deactivateCamera", <<>>, TRUE, 0, FALSE)
    /\ emitted' = <<>>
    /\ UNCHANGED <<halted, colvars, layout, tile_call, inpvars, box_call>>

\* A fault: the update is applied whatever the camera state.
UpdateNeverSkipped(cam) == FALSE

\* if (sgp.camera.active) return;
UpdateSkipped(cam) == cam.active

SGP_UpdateCameraPosition(x, y) ==
    /\ ~halted
    /\ IF UpdateSkipped(camera)
       THEN /\ UNCHANGED camera
            /\ emitted' = <<>>
       ELSE /\ camera' = [camera EXCEPT !.current_x = ToU32(x), !.current_y = ToU32(y)]
            /\ emitted' = << Command("MAP_scrollTo", <<ToU32(x), ToU32(y)>>) >>
    /\ cam_call' = CamCall("SGP_UpdateCameraPosition", <<x, y>>, ~UpdateSkipped(camera),
                           0, FALSE)
    /\ UNCHANGED <<halted, colvars, layout, tile_call, inpvars, box_call>>

\* sgp.camera.max_vertical_scroll = limit;
SGP_CameraSetVerticalScrollLimit(limit) ==
    /\ ~halted
    /\ camera' = [camera EXCEPT !.max_vertical_scroll = ToU16(limit)]
    /\ cam_call' = CamCall("SGP_CameraSetVerticalScrollLimit", <<limit>>, TRUE, 0, FALSE)
    /\ emitted' = <<>>
    /\ UNCHANGED <<halted, colvars, layout, tile_call, inpvars, box_call>>

\* A fault: the shaken position is kept.
NoRestore(shaken, shake_x) == shaken

\* sgp.camera.current_x -= shake_x;
Restore(shaken, shake_x) == AddU32(shaken, 0 - shake_x)

\* The loop of SGP_ShakeCamera from frame i on, the camera being inactive:
\* current_x after the loop and the commands sent.
RECURSIVE ShakeLoop(_, _, _, _, _)
ShakeLoop(current_x, current_y, i, duration, intensity) ==
    IF i >= duration THEN [current_x |-> current_x, out |-> <<>>]
    ELSE LET shake_x == IF i % 2 = 0 THEN intensity ELSE ToS16(0 - intensity)
             shaken == AddU32(current_x, shake_x)
             rest == ShakeLoop(Restore(shaken, shake_x), current_y, i + 1, duration,
                               intensity)
         IN  [current_x |-> rest.current_x,
              out |-> << Command("MAP_scrollTo", <<shaken, current_y>>),
                         Command("SYS_doVBlankProcess", <<>>) >> \o rest.out]

SGP_ShakeCamera(duration, intensity) ==
    LET end == ShakeLoop(camera.current_x, camera.current_y, 0, duration, intensity)
    IN  /\ ~halted
        /\ camera' = [camera EXCEPT !.current_x = end.current_x, !.active = TRUE]
        /\ emitted' = end.out
        /\ cam_call' = CamCall("SGP_ShakeCamera", <<duration, intensity>>, TRUE, 0, FALSE)
        /\ UNCHANGED <<halted, colvars, layout, tile_call, inpvars, box_call>>

----------------------------------------------------------------------------
(* Input                                                                   *)

\* A fault: every read goes to the first controller.
ReadFirstPad(pad, joy) == pad[JOY_1]

\* extern u16 JOY_readJoypad(u16 joy): what controller joy holds, as u16.
JOY_readJoypad(pad, joy) == ToU16(pad[joy])

\* pad: what the two controllers hold while the call reads them.
SGP_PollInput(pad) ==
    /\ ~halted
    /\ input' = [joy1_previous |-> input.joy1_state,
                 joy2_previous |-> input.joy2_state,
                 joy1_state |-> JOY_readJoypad(pad, JOY_1),
                 joy2_state |-> JOY_readJoypad(pad, JOY_2)]
    /\ in_call' = InCall("SGP_PollInput", pad,
                         IF in_call.op = "SGP_PollInput" THEN <<in_call.pad>> ELSE <<>>)
    /\ btn_call' = NoButtonCall
    /\ UNCHANGED <<colvars, layout, camvars, tile_call, box_call>>

\* a & b on u16 values, bit k upwards.
RECURSIVE BitAndFrom(_, _, _)
BitAndFrom(a, b, k) ==
    IF k > 15 THEN 0
    ELSE (IF HasBit(a, 2 ^ k) /\ HasBit(b, 2 ^ k) THEN 2 ^ k ELSE 0)
         + BitAndFrom(a, b, k + 1)

BitAnd(a, b) == BitAndFrom(a, b, 0)

\* (joy == JOY_1) ? sgp.input.joy1_state : sgp.input.joy2_state
StateOf(inp, joy) == IF joy = JOY_1 THEN inp.joy1_state ELSE inp.joy2_state

\* (joy == JOY_1) ? sgp.input.joy1_previous : sgp.input.joy2_previous
PreviousOf(inp, joy) == IF joy = JOY_1 THEN inp.joy1_previous ELSE inp.joy2_previous

\* return ((state & button) != 0) && ((prev & button) == 0);
SGP_ButtonPressed(inp, joy, button) ==
    LET state == StateOf(inp, joy)
        prev == PreviousOf(inp, joy)
    IN  BitAnd(state, button) # 0 /\ BitAnd(prev, button) = 0

\* return ((state & button) == 0) && ((prev & button) != 0);
SGP_ButtonReleased(inp, joy, button) ==
    LET state == StateOf(inp, joy)
        prev == PreviousOf(inp, joy)
    IN  BitAnd(state, button) = 0 /\ BitAnd(prev, button) # 0

\* A fault: the steady state is taken from the previous poll.
ButtonWasDown(inp, joy, button) == BitAnd(PreviousOf(inp, joy), button) # 0

\* return (state & button) != 0;
SGP_ButtonDown(inp, joy, button) == BitAnd(StateOf(inp, joy), button) # 0

\* The three button functions called with the same controller id and mask.
ButtonQuery(joy, button) ==
    /\ ~halted
    /\ btn_call' = [asked |-> TRUE, joy |-> joy, button |-> button,
                    pressed |-> SGP_ButtonPressed(input, joy, button),
                    released |-> SGP_ButtonReleased(input, joy, button),
                    down |-> SGP_ButtonDown(input, joy, button)]
    /\ UNCHANGED <<colvars, layout, camvars, tile_call, input, in_call, box_call>>

----------------------------------------------------------------------------
(* Box collision                                                           *)

\* A fault: boxes that only touch count as colliding.
TouchingCollision(a, b) ==
    /\ a.x <= b.x + b.w
    /\ a.x + a.w >= b.x
    /\ a.y <= b.y + b.h
    /\ a.y + a.h >= b.y

\* The u16 operands are promoted to int: the sums do not wrap at 65536.
SGP_CheckCollision(a, b) ==
    /\ a.x < b.x + b.w
    /\ a.x + a.w > b.x
    /\ a.y < b.y + b.h
    /\ a.y + a.h > b.y

BoxQuery(a, b) ==
    /\ ~halted
    /\ box_call' = [asked |-> TRUE, a |-> a, b |-> b, ret |-> SGP_CheckCollision(a, b)]
    /\ UNCHANGED <<colvars, layout, camvars, tile_call, inpvars>>

----------------------------------------------------------------------------
(* Specifications                                                          *)

\* A query for one of the entities E, at one of the positions P, with one of
\* the heights H, in any single direction.
Query(E, P, H) ==
    \E player_index \in E, pos \in P, player_height \in H, direction \in Directions :
        SGP_PlayerLevelCollision(player_index, pos[1], pos[2], BoxWidth,
                                 player_height, test_level, direction)

\* One entity, queried over the whole probe set.
Next == Query({0}, Positions, Heights)

Spec == Init /\ [][Next]_vars

\* Every entity, queried over the shared positions.
NextEntities == Query(Entities, SharedPositions, {BoxHeight})

SpecEntities == Init /\ [][NextEntities]_vars

\* Queries that include entity ids past the end of the table, under every
\* placement of the arrays.
NextStray == Query(StrayEntities, StrayPositions, {BoxHeight})

SpecStray == Start(Layouts) /\ [][NextStray]_vars

\* Solidity queries over the grids, the tile coordinates and both policies.
NextTiles ==
    \E grid \in DOMAIN TileGrids, tx \in TileCoords, ty \in TileCoords,
       oob_x_solid \in BOOLEAN, oob_y_solid \in BOOLEAN :
        TileQuery(grid, tx, ty, oob_x_solid, oob_y_solid)

SpecTiles == Init /\ [][NextTiles]_vars

\* Any sequence of camera calls; a program that has trapped makes none.
NextCamera ==
    \/ SGP_init
    \/ \E map \in Maps : SGP_CameraInit(map)
    \/ \E target \in Targets, sprite \in BOOLEAN, size \in SpriteSizes :
           SGP_CameraFollowTarget(target[1], target[2], sprite, size, size)
    \/ SGP_activateCamera
    \/ SGP_deactivateCamera
    \/ \E pos \in DirectPositions : SGP_UpdateCameraPosition(pos[1], pos[2])
    \/ \E duration \in 0..MaxDuration, intensity \in Intensities :
           SGP_ShakeCamera(duration, intensity)
    \/ \E limit \in VerticalLimits : SGP_CameraSetVerticalScrollLimit(limit)

SpecCamera == Init /\ [][NextCamera]_vars

\* Polls with any readings of the two controllers, and re-initialisation.
NextInput ==
    \/ SGP_init
    \/ \E pad \in [Joypads -> PadReadings] : SGP_PollInput(pad)

SpecInput == Init /\ [][NextInput]_vars

\* Polls and button queries, with every controller id and mask.
NextButtons ==
    \/ SGP_init
    \/ \E pad \in [Joypads -> PadReadings] : SGP_PollInput(pad)
    \/ \E joy \in JoyIds, button \in ButtonMasks : ButtonQuery(joy, button)

SpecButtons == Init /\ [][NextButtons]_vars

\* Re-initialisation after camera calls and polls of every kind.
NextInit ==
    \/ SGP_init
    \/ SGP_CameraInit(Map(32, 16))
    \/ \E sprite \in BOOLEAN : SGP_CameraFollowTarget(2048, 1024, sprite, 0, 0)
    \/ SGP_deactivateCamera
    \/ \E pos \in DirectPositions : SGP_UpdateCameraPosition(pos[1], pos[2])
    \/ \E limit \in VerticalLimits : SGP_CameraSetVerticalScrollLimit(limit)
    \/ \E pad \in [Joypads -> PadReadings] : SGP_PollInput(pad)

SpecInit == Init /\ [][NextInit]_vars

\* Box tests over every pair of boxes.
NextBoxes == \E a \in Boxes, b \in Boxes : BoxQuery(a, b)

SpecBoxes == Init /\ [][NextBoxes]_vars

----------------------------------------------------------------------------
(* Vocabulary of the properties                                            *)

\* The cache flag that a single direction owns.
FlagOf(direction) ==
    CASE direction = SGP_DIR_UP -> COLLIDE_UP
      [] direction = SGP_DIR_DOWN -> COLLIDE_DOWN
      [] direction = SGP_DIR_LEFT -> COLLIDE_LEFT
      [] direction = SGP_DIR_RIGHT -> COLLIDE_RIGHT

\* floor(v / 16): the tile coordinate of a pixel coordinate.
TileOf(v) == v \div 16

Rows(level) == Len(level.collision_data) \div level.length

InGrid(level, col, row) ==
    col \in 0..(level.length - 1) /\ row \in 0..(Rows(level) - 1)

\* Whether tile (col, row) of the grid is SOLID, for a tile inside the grid.
SolidAt(level, col, row) ==
    level.collision_data[row * level.length + col + 1] = SOLID_TILE

\* A query has been made.
Called == path # "init"

\* The four tile-edge coordinates of the last query's box.
BoxLeft == TileOf(call.player_x)

BoxRight == TileOf(call.player_x + call.player_width - 1)

BoxTop == TileOf(call.player_y)

BoxBottom == TileOf(call.player_y + call.player_height - 1)

----------------------------------------------------------------------------
(* Properties                                                              *)

\* C1: cache short-circuit. In every step, for every direction: if the queried
\* entity's record holds the query's (x, y) as last position and the bit of
\* the queried direction is set, the query returns true and reads no tile.
C1_CacheShortCircuit ==
    [][ ( /\ prev_player_x[call'.player_index] = call'.player_x
          /\ prev_player_y[call'.player_index] = call'.player_y
          /\ FlagOf(call'.direction) \in prev_collide_flags[call'.player_index] )
        => (ret' = TRUE /\ reads' = {}) ]_vars

\* C2: a cached answer is used only on an exact position match. In every
\* step, for every direction: if the stored last position differs from the
\* query's (x, y) in either coordinate, the answer does not come from the
\* cache.
C2_CacheOnlyOnExactMatch ==
    [][ ( \/ prev_player_x[call'.player_index] # call'.player_x
          \/ prev_player_y[call'.player_index] # call'.player_y )
        => path' # "cache" ]_vars

C4_DirectionClearing ==
    reversal => (path # "cache" /\ (ret => (path = "tiles" /\ reads # {})))

\* C4 witness: LEFT returned true at (16, 32) and the RIGHT query that followed
\* at (16, 32) was evaluated on its tiles (column 2 is solid there).
C4_Witness ==
    /\ reversal
    /\ call.direction = SGP_DIR_RIGHT
    /\ call.player_x = 16 /\ call.player_y = 32
    /\ path = "tiles" /\ ret

\* C5: a query changes, among the entity's four flags, only the bit of its
\* direction and the bit of the opposite direction: a LEFT or RIGHT query
\* leaves UP and DOWN as they were, an UP or DOWN query leaves LEFT and RIGHT.
C5_OnlyOwnAxisChanges ==
    [][ LET e == call'.player_index
            other == IF call'.direction \in {SGP_DIR_LEFT, SGP_DIR_RIGHT}
                     THEN {COLLIDE_UP, COLLIDE_DOWN}
                     ELSE {COLLIDE_LEFT, COLLIDE_RIGHT}
        IN  prev_collide_flags'[e] \cap other = prev_collide_flags[e] \cap other ]_vars

\* C6: multi-entity isolation. A query for entity i leaves the record (last
\* position and flags) of every other entity unchanged.
C6_EntityIsolation ==
    [][ \A j \in Entities \ {call'.player_index} :
            /\ prev_collide_flags'[j] = prev_collide_flags[j]
            /\ prev_player_x'[j] = prev_player_x[j]
            /\ prev_player_y'[j] = prev_player_y[j] ]_vars

\* C6 witness: entity 0 has just hit the left wall at (0, 16) while entity 1
\* keeps the record of its own query at (32, 32), with a flag set.
C6_Witness ==
    /\ call.player_index = 0 /\ call.direction = SGP_DIR_LEFT /\ ret
    /\ prev_player_x[0] = 0 /\ prev_player_y[0] = 16
    /\ prev_player_x[1] = 32 /\ prev_player_y[1] = 32
    /\ prev_collide_flags[1] # {}
    /\ prev_collide_flags[1] # prev_collide_flags[0]

\* C7: post-move horizontal probing. When the answer is not taken from the
\* cache and the probed tiles lie inside the grid, LEFT returns true iff tile
\* (BoxLeft, BoxTop) or (BoxLeft, BoxBottom) is SOLID, and RIGHT returns true
\* iff the same holds with column BoxRight.
C7_PostMoveHorizontal ==
    ( /\ Called /\ path # "cache"
      /\ call.direction \in {SGP_DIR_LEFT, SGP_DIR_RIGHT} )
    => LET col == IF call.direction = SGP_DIR_LEFT THEN BoxLeft ELSE BoxRight
       IN  (InGrid(test_level, col, BoxTop) /\ InGrid(test_level, col, BoxBottom))
           => (ret <=> ( \/ SolidAt(test_level, col, BoxTop)
                         \/ SolidAt(test_level, col, BoxBottom) ))

\* C8: post-move vertical probing. When the answer is not taken from the cache
\* and the probed tiles lie inside the grid, UP returns true iff tile
\* (BoxLeft, BoxTop) or (BoxRight, BoxTop) is SOLID, and DOWN returns true iff
\* the same holds with row BoxBottom.
C8_PostMoveVertical ==
    ( /\ Called /\ path # "cache"
      /\ call.direction \in {SGP_DIR_UP, SGP_DIR_DOWN} )
    => LET row == IF call.direction = SGP_DIR_UP THEN BoxTop ELSE BoxBottom
       IN  (InGrid(test_level, BoxLeft, row) /\ InGrid(test_level, BoxRight, row))
           => (ret <=> ( \/ SolidAt(test_level, BoxLeft, row)
                         \/ SolidAt(test_level, BoxRight, row) ))

\* The last query's box lies in empty tiles of the grid, its bottom edge is on
\* a tile boundary and every tile directly beneath it is SOLID.
RestingOnGround ==
    /\ Called
    /\ \A col \in BoxLeft..BoxRight, row \in BoxTop..BoxBottom :
           InGrid(test_level, col, row) /\ ~SolidAt(test_level, col, row)
    /\ (call.player_y + call.player_height) % 16 = 0
    /\ \A col \in BoxLeft..BoxRight :
           /\ InGrid(test_level, col, BoxBottom + 1)
           /\ SolidAt(test_level, col, BoxBottom + 1)

\* The tiles of column col on the rows of the last query's box are empty tiles
\* of the grid.
EmptyBeside(col) ==
    \A row \in BoxTop..BoxBottom :
        InGrid(test_level, col, row) /\ ~SolidAt(test_level, col, row)

\* C9 (vertical half): a DOWN query of a box resting on the ground returns
\* true.
C9_GroundBlocksDown ==
    (RestingOnGround /\ call.direction = SGP_DIR_DOWN) => ret

\* C9: resting on ground. For a box resting on the ground a DOWN query returns
\* true, while a LEFT or RIGHT query towards an empty neighbouring tile on the
\* same rows returns false.
C9_RestingOnGround ==
    RestingOnGround =>
        /\ call.direction = SGP_DIR_DOWN => ret
        /\ (call.direction = SGP_DIR_LEFT /\ EmptyBeside(BoxLeft - 1)) => ~ret
        /\ (call.direction = SGP_DIR_RIGHT /\ EmptyBeside(BoxRight + 1)) => ~ret

\* C10: horizontal out-of-bounds is solid. A LEFT query whose left tile column
\* is below 0 and a RIGHT query whose right tile column is at or beyond the
\* row length return true, for every y.
C10_HorizontalOutOfBoundsSolid ==
    Called =>
        /\ (call.direction = SGP_DIR_LEFT /\ BoxLeft < 0) => ret
        /\ (call.direction = SGP_DIR_RIGHT /\ BoxRight >= test_level.length) => ret

\* Every tile row of the last query's box lies outside the grid while its tile
\* columns lie inside.
RowsOutsideColsInside ==
    /\ Called
    /\ \A row \in BoxTop..BoxBottom : row \notin 0..(Rows(test_level) - 1)
    /\ \A col \in BoxLeft..BoxRight : col \in 0..(test_level.length - 1)

\* C11: vertical out-of-bounds asymmetry. When the box's tile rows are outside
\* the grid and its tile columns inside, a LEFT or RIGHT query returns false
\* and an UP or DOWN query returns true.
C11_VerticalOutOfBoundsAsymmetry ==
    RowsOutsideColsInside =>
        /\ call.direction \in {SGP_DIR_LEFT, SGP_DIR_RIGHT} => ~ret
        /\ call.direction \in {SGP_DIR_UP, SGP_DIR_DOWN} => ret

\* C12: no out-of-range tile read. Every index at which a query reads
\* collision_data lies in [0, data_length).
C12_NoOutOfRangeTileRead ==
    reads \subseteq 0..(Len(test_level.collision_data) - 1)

\* C13: after every query that is not answered from the cache, the entity's
\* record holds the queried (x, y) as its last position and the bit of the
\* queried direction equals the boolean the query returned.
C13_RecordAfterQuery ==
    (Called /\ path # "cache" /\ call.player_index \in Entities) =>
        /\ prev_player_x[call.player_index] = call.player_x
        /\ prev_player_y[call.player_index] = call.player_y
        /\ (FlagOf(call.direction) \in prev_collide_flags[call.player_index]) <=> ret

\* C14: a query with an entity id outside [0, SGP_MAX_ENTITIES) modifies no
\* cache record of any valid entity and no other state.
C14_InvalidEntityRejected ==
    [][ call'.player_index \notin Entities =>
            UNCHANGED <<prev_collide_flags, prev_player_x, prev_player_y, layout,
                        camvars, tile_call>> ]_vars

\* A solidity query has been made.
TileCalled == tile_call.grid # "none"

\* C15: tile solidity query. The query returns oob_x_solid when tx is outside
\* [0, row_length), also when ty is out of range too; otherwise oob_y_solid
\* when ty is outside [0, data_length / row_length); otherwise whether
\* collision_data[ty * row_length + tx] equals SOLID. The total-rows helper
\* returns data_length / row_length, truncated.
C15_TileSolidityQuery ==
    TileCalled =>
        LET level == TileGrids[tile_call.grid]
            total_rows == level.data_length \div level.row_length
        IN  /\ tile_call.rows = total_rows
            /\ tile_call.solid =
                   ( IF tile_call.tx < 0 \/ tile_call.tx >= level.row_length
                     THEN tile_call.oob_x_solid
                     ELSE IF tile_call.ty < 0 \/ tile_call.ty >= total_rows
                     THEN tile_call.oob_y_solid
                     ELSE level.collision_data[tile_call.ty * level.row_length
                                               + tile_call.tx + 1] = SOLID_TILE )

\* C15 witness: both coordinates are outside the ragged grid, the two policies
\* differ and the column policy has answered; the grid has 2 complete rows.
C15_Witness ==
    /\ tile_call.grid = "ragged"
    /\ tile_call.tx = -1 /\ tile_call.ty = 2
    /\ tile_call.oob_x_solid /\ ~tile_call.oob_y_solid
    /\ tile_call.solid
    /\ tile_call.rows = 2

\* The last camera call was SGP_CameraFollowTarget on an active camera.
Followed == cam_call.op = "SGP_CameraFollowTarget" /\ cam_call.ran

\* C16 (as stated): camera clamp invariant. In every reachable state in which
\* a map of at least 320x224 pixels is bound, 0 <= current_x <= map_width - 320
\* and 0 <= current_y <= map_height - 224.
C16_CameraClampInvariant ==
    ( /\ ~camera.map.null
      /\ camera.map_width >= screenWidth
      /\ camera.map_height >= screenHeight )
    => /\ BetweenU32(camera.current_x, 0, camera.map_width - screenWidth)
       /\ BetweenU32(camera.current_y, 0, camera.map_height - screenHeight)

\* C16 (amended): after every SGP_CameraFollowTarget call on an active camera
\* bound to a map whose map_width is at least 320 and map_height at least 224,
\* 0 <= current_x <= map_width - 320 and 0 <= current_y <= map_height - 224.
C16_ClampedAfterFollow ==
    ( /\ Followed
      /\ ~camera.map.null
      /\ camera.map_width >= screenWidth
      /\ camera.map_height >= screenHeight )
    => /\ BetweenU32(camera.current_x, 0, camera.map_width - screenWidth)
       /\ BetweenU32(camera.current_y, 0, camera.map_height - screenHeight)

\* C16 witness: on the 4096x2048 map the target (4095, 2047) has been followed
\* and the camera stands at the far corner (3776, 1824).
C16_Witness ==
    /\ Followed
    /\ camera.map = Map(32, 16)
    /\ cam_call.args[1] = 4095 /\ cam_call.args[2] = 2047
    /\ camera.current_x = ToU32(3776)
    /\ camera.current_y = ToU32(1824)

\* v clamped to [lo, hi].
Clamped(v, lo, hi) == IF v < lo THEN lo ELSE IF v > hi THEN hi ELSE v

\* The size in pixels of n metatiles.
PixelsOf(n) == n * 128

\* C17: follow-target result. On an active camera bound to a map at least as
\* large as the screen, for a target inside the map, the camera position after
\* SGP_CameraFollowTarget is on each axis the candidate (target coordinate
\* minus centering offset, the offset being half the screen less half the
\* sprite) clamped to [0, map dimension - screen dimension].
C17_FollowTargetResult ==
    ( /\ Followed
      /\ ~camera.map.null
      /\ PixelsOf(camera.map.w) >= screenWidth
      /\ PixelsOf(camera.map.h) >= screenHeight
      /\ cam_call.args[1] \in 0..(PixelsOf(camera.map.w) - 1)
      /\ cam_call.args[2] \in 0..(PixelsOf(camera.map.h) - 1) )
    => /\ camera.current_x =
              ToU32(Clamped(cam_call.args[1]
                                - ((screenWidth \div 2) - (cam_call.args[3] \div 2)),
                            0, PixelsOf(camera.map.w) - screenWidth))
       /\ camera.current_y =
              ToU32(Clamped(cam_call.args[2]
                                - ((screenHeight \div 2) - (cam_call.args[4] \div 2)),
                            0, PixelsOf(camera.map.h) - screenHeight))

\* C18: undersized map. When the bound map is narrower than 320 pixels or
\* shorter than 224 pixels, SGP_CameraFollowTarget leaves the camera coordinate
\* of that axis at 0.
C18_UndersizedMap ==
    (Followed /\ ~camera.map.null) =>
        /\ camera.map_width < screenWidth => camera.current_x = ToU32(0)
        /\ camera.map_height < screenHeight => camera.current_y = ToU32(0)

\* C19: null map binding fails cleanly. SGP_CameraInit(NULL) returns 0 without
\* reading any field through the null map handle.
C19_NullMapFailsCleanly ==
    (cam_call.op = "SGP_CameraInit" /\ camera.map.null) =>
        /\ cam_call.ran
        /\ cam_call.ret = 0
        /\ ~cam_call.null_read

\* C20: the camera is active only when a map is bound.
C20_ActiveOnlyWithMap ==
    camera.active => ~camera.map.null

\* A step that is a SGP_CameraInit call with a non-null map.
BindsMap == cam_call'.op = "SGP_CameraInit" /\ ~camera'.map.null

\* C21: successful bind. SGP_CameraInit(map) with a non-null map returns
\* non-zero, sets map_width and map_height to the map's metatile width and
\* height times 128, sets the camera active, and leaves current_x and
\* current_y unchanged.
C21_SuccessfulBind ==
    [][BindsMap =>
          /\ cam_call'.ret # 0
          /\ camera'.map_width = PixelsOf(camera'.map.w)
          /\ camera'.map_height = PixelsOf(camera'.map.h)
          /\ camera'.active
          /\ camera'.current_x = camera.current_x
          /\ camera'.current_y = camera.current_y]_vars

\* C22: metatile conversion. For every metatile count a map handle can hold,
\* SGP_MetatilesToPixels(n) is n * 128, so the camera's map_width and
\* map_height are the true pixel dimensions of the bound map.
C22_MetatileConversion ==
    ~camera.map.null =>
        /\ SGP_MetatilesToPixels(camera.map.w) = PixelsOf(camera.map.w)
        /\ SGP_MetatilesToPixels(camera.map.h) = PixelsOf(camera.map.h)
        /\ camera.map_width = PixelsOf(camera.map.w)
        /\ camera.map_height = PixelsOf(camera.map.h)

\* The commands of out whose names are in names, in order.
CommandsNamed(out, names) == SelectSeq(out, LAMBDA c : c.cmd \in names)

\* The names of the commands of out, in order.
NamesOf(out) == [i \in 1..Len(out) |-> out[i].cmd]

ScrollCommands == {"MAP_scrollTo", "VDP_setHorizontalScroll", "VDP_setVerticalScroll"}

\* A step that is a SGP_CameraFollowTarget call.
FollowStep == cam_call'.op = "SGP_CameraFollowTarget"

\* C23: camera inactivity. While the camera is inactive, every
\* SGP_CameraFollowTarget call, whatever the target, leaves current_x and
\* current_y unchanged and emits no scroll command and no sprite-position
\* command.
C23_InactiveFollowIsNoOp ==
    [][(FollowStep /\ ~camera.active) =>
          /\ camera'.current_x = camera.current_x
          /\ camera'.current_y = camera.current_y
          /\ ~camera'.active
          /\ emitted' = <<>>]_vars

\* C23 witness: with the 4096x2048 map bound and the inactive camera put at
\* (123, 456), a follow of target (2048, 1024) with a sprite has been called
\* and the camera still stands at (123, 456) with nothing emitted.
C23_Witness ==
    /\ cam_call.op = "SGP_CameraFollowTarget"
    /\ cam_call.args = <<2048, 1024, 0, 0, 1>>
    /\ ~camera.active
    /\ camera.map = Map(32, 16)
    /\ camera.current_x = ToU32(123)
    /\ camera.current_y = ToU32(456)
    /\ emitted = <<>>

\* C24: direct position update. SGP_UpdateCameraPosition(x, y) on an active
\* camera changes nothing and emits no command; on an inactive camera it sets
\* current_x = x and current_y = y without clamping, changes nothing else, and
\* emits exactly one MAP_scrollTo(x, y).
C24_DirectPositionUpdate ==
    [][cam_call'.op = "SGP_UpdateCameraPosition" =>
          IF camera.active
          THEN camera' = camera /\ emitted' = <<>>
          ELSE /\ camera' = [camera EXCEPT !.current_x = ToU32(cam_call'.args[1]),
                                           !.current_y = ToU32(cam_call'.args[2])]
               /\ emitted' = << Command("MAP_scrollTo",
                                        <<ToU32(cam_call'.args[1]),
                                          ToU32(cam_call'.args[2])>>) >>]_vars

\* C24 witness: with the 4096x2048 map bound, the inactive camera has been
\* put at (5000, 3000), outside the map, and one MAP_scrollTo was emitted.
C24_Witness ==
    /\ cam_call.op = "SGP_UpdateCameraPosition"
    /\ cam_call.args = <<5000, 3000>>
    /\ ~camera.active
    /\ camera.map = Map(32, 16)
    /\ camera.current_x = ToU32(5000)
    /\ camera.current_y = ToU32(3000)
    /\ Len(emitted) = 1

\* C25: scroll commands are emitted only on change. On an active camera,
\* SGP_CameraFollowTarget emits MAP_scrollTo, VDP_setHorizontalScroll and
\* VDP_setVerticalScroll (once each) exactly when the clamped position differs
\* from the current position on at least one axis; when it is equal none of
\* the three is emitted and current_x / current_y are unchanged.
C25_ScrollOnlyOnChange ==
    [][(FollowStep /\ camera.active) =>
          LET a == cam_call'.args
              clamped_x == ToU32(NewCamera(ToU16(a[1]), screenWidth, a[3],
                                           camera.map_width))
              clamped_y == ToU32(NewCamera(ToU16(a[2]), screenHeight, a[4],
                                           camera.map_height))
              scrolls == NamesOf(CommandsNamed(emitted', ScrollCommands))
          IN  IF clamped_x # camera.current_x \/ clamped_y # camera.current_y
              THEN scrolls = << "MAP_scrollTo", "VDP_setHorizontalScroll",
                                "VDP_setVerticalScroll" >>
              ELSE /\ scrolls = <<>>
                   /\ camera'.current_x = camera.current_x
                   /\ camera'.current_y = camera.current_y]_vars

\* C25 witness: on the 4096x2048 map the camera already stood at (1888, 912)
\* when target (2048, 1024) was followed without a sprite: nothing was emitted.
C25_Witness ==
    /\ Followed
    /\ cam_call.args = <<2048, 1024, 0, 0, 0>>
    /\ camera.map = Map(32, 16)
    /\ camera.current_x = ToU32(1888)
    /\ camera.current_y = ToU32(912)
    /\ emitted = <<>>

\* C26: the sprite position is always emitted. On an active camera, every
\* SGP_CameraFollowTarget call that supplies a sprite emits exactly one
\* SPR_setPosition with coordinates (target x - current_x, target y -
\* current_y), the position being the one after the call's update, whether or
\* not the camera moved; with no sprite none is emitted.  (The subtraction is
\* read modulo 2^32, the width of current_x.)
C26_SpritePositionAlwaysEmitted ==
    [][(FollowStep /\ camera.active) =>
          LET a == cam_call'.args
              places == CommandsNamed(emitted', {"SPR_setPosition"})
          IN  IF a[5] = 1
              THEN /\ Len(places) = 1
                   /\ AddU32(camera'.current_x, places[1].args[1]) = ToU32(a[1])
                   /\ AddU32(camera'.current_y, places[1].args[2]) = ToU32(a[2])
              ELSE places = <<>>]_vars

\* The number a u32 holds when read as a signed 32-bit value.
AsSigned(u) == IF u[1] >= 32768 THEN (u[1] - 65536) * 65536 + u[2]
               ELSE u[1] * 65536 + u[2]

Min(a, b) == IF a < b THEN a ELSE b

\* C27: vertical scroll limit. The vertical hardware-scroll value emitted by
\* SGP_CameraFollowTarget is min(new camera y / 8, max_vertical_scroll), where
\* max_vertical_scroll is the value last set with
\* SGP_CameraSetVerticalScrollLimit (32 by default): never above the
\* configured limit and not capped below it.
C27_VerticalScrollLimit ==
    [][FollowStep =>
          \A i \in 1..Len(emitted') :
              emitted'[i].cmd = "VDP_setVerticalScroll" =>
                  emitted'[i].args[2] =
                      Min(AsSigned(camera'.current_y) \div 8,
                          camera.max_vertical_scroll)]_vars

\* The commands of a shake of the given duration and intensity that starts at
\* (x, y): step k sends MAP_scrollTo with x + intensity (k even) or
\* x - intensity (k odd), modulo 2^32, and then waits for one frame.
ShakePattern(x, y, duration, intensity) ==
    [j \in 1..(2 * duration) |->
        IF j % 2 = 1
        THEN Command("MAP_scrollTo",
                     << AddU32(x, IF ((j - 1) \div 2) % 2 = 0
                                  THEN intensity ELSE 0 - intensity), y >>)
        ELSE Command("SYS_doVBlankProcess", <<>>)]

\* A step that is a SGP_ShakeCamera call.
ShakeStep == cam_call'.op = "SGP_ShakeCamera"

\* C28: shake pattern. SGP_ShakeCamera(duration, intensity) performs exactly
\* duration steps; step k (from 0) emits exactly one MAP_scrollTo with
\* x = original x + intensity for even k and original x - intensity for odd
\* k and y unchanged, followed by exactly one SYS_doVBlankProcess, with
\* nothing else emitted.
C28_ShakePattern ==
    [][ShakeStep =>
          emitted' = ShakePattern(camera.current_x, camera.current_y,
                                  cam_call'.args[1], cam_call'.args[2])]_vars

\* C29: shake restores the position. After each shake step and when
\* SGP_ShakeCamera returns, current_x and current_y equal their values from
\* before the call, for every duration, intensity and starting position.
C29_ShakeRestoresPosition ==
    [][ShakeStep =>
          /\ camera'.current_x = camera.current_x
          /\ camera'.current_y = camera.current_y
          /\ \A k \in 0..cam_call'.args[1] :
                 ShakeLoop(camera.current_x, camera.current_y, 0, k,
                           cam_call'.args[2]).current_x = camera.current_x]_vars

\* C29 witness: a shake of 2 frames with intensity 4 from (123, 456) has sent
\* x = 127 and then x = 119, and the camera stands at (123, 456) again.
C29_Witness ==
    /\ cam_call.op = "SGP_ShakeCamera"
    /\ cam_call.args = <<2, 4>>
    /\ Len(emitted) = 4
    /\ emitted[1].args[1] = ToU32(127)
    /\ emitted[3].args[1] = ToU32(119)
    /\ camera.current_x = ToU32(123)
    /\ camera.current_y = ToU32(456)

\* A step that is a SGP_PollInput call.
PollStep == in_call'.op = "SGP_PollInput"

\* C30: poll tracking. After each SGP_PollInput, for each of the two
\* controllers, previous is that controller's state from just before the poll
\* and state is the value just read for that controller; after n >= 2 polls
\* previous is the reading of poll n - 1; controller 1's fields are determined
\* by controller 1's readings alone, and controller 2's by controller 2's.
C30_PollTracking ==
    [][PollStep =>
          /\ input'.joy1_previous = input.joy1_state
          /\ input'.joy2_previous = input.joy2_state
          /\ input'.joy1_state = in_call'.pad[JOY_1]
          /\ input'.joy2_state = in_call'.pad[JOY_2]
          /\ in_call'.before # <<>> =>
                 /\ input'.joy1_previous = in_call'.before[1][JOY_1]
                 /\ input'.joy2_previous = in_call'.before[1][JOY_2]]_vars

\* C30 witness: after a poll that read (A, B) and one that read (A+B, 0),
\* controller 1 has state A+B and previous A, controller 2 state 0 and
\* previous B.
C30_Witness ==
    /\ in_call.op = "SGP_PollInput"
    /\ in_call.before = << [joy \in Joypads |-> IF joy = JOY_1 THEN BUTTON_A
                                                               ELSE BUTTON_B] >>
    /\ in_call.pad = [joy \in Joypads |-> IF joy = JOY_1 THEN BUTTON_A + BUTTON_B
                                                          ELSE 0]
    /\ input = [joy1_state |-> BUTTON_A + BUTTON_B, joy1_previous |-> BUTTON_A,
                joy2_state |-> 0, joy2_previous |-> BUTTON_B]

\* Button b is down in the u16 reading v.
IsDown(v, b) == HasBit(v, b)

\* Button b belongs to the mask.
InMask(mask, b) == HasBit(mask, b)

\* A button query on one of the two controllers has been made since the poll.
AskedReal == btn_call.asked /\ btn_call.joy \in Joypads

\* C31: pressed means any button of the mask was just pressed.
\* SGP_ButtonPressed(joy, mask) is true iff at least one button in mask is down
\* in the current poll and was up in the previous poll, also when another
\* button of the same mask was already held.
C31_PressedAnyOfMask ==
    AskedReal =>
        ( btn_call.pressed <=>
            \E b \in Buttons :
                /\ InMask(btn_call.button, b)
                /\ IsDown(StateOf(input, btn_call.joy), b)
                /\ ~IsDown(PreviousOf(input, btn_call.joy), b) )

\* C32: released means any button of the mask was just released.
\* SGP_ButtonReleased(joy, mask) is true iff at least one button in mask was
\* down in the previous poll and is up in the current poll, also when another
\* button of the same mask is still held.
C32_ReleasedAnyOfMask ==
    AskedReal =>
        ( btn_call.released <=>
            \E b \in Buttons :
                /\ InMask(btn_call.button, b)
                /\ IsDown(PreviousOf(input, btn_call.joy), b)
                /\ ~IsDown(StateOf(input, btn_call.joy), b) )

\* The controller queried was read in two consecutive polls.
PolledTwice == in_call.op = "SGP_PollInput" /\ in_call.before # <<>>

\* C33: a held button is an edge only once. If a controller's reading is the
\* same in two consecutive polls, then after the second poll SGP_ButtonPressed
\* and SGP_ButtonReleased are false for every mask on that controller and
\* SGP_ButtonDown is true for every mask that has a held button; in the poll
\* in which a button went down, SGP_ButtonPressed and SGP_ButtonDown are true
\* for that button.
C33_HeldIsEdgeOnce ==
    (AskedReal /\ PolledTwice) =>
        LET before == in_call.before[1][btn_call.joy]
            now == in_call.pad[btn_call.joy]
        IN  /\ before = now =>
                   /\ ~btn_call.pressed
                   /\ ~btn_call.released
                   /\ (\E b \in Buttons : InMask(btn_call.button, b) /\ IsDown(now, b))
                          => btn_call.down
            /\ ( /\ btn_call.button \in Buttons
                 /\ ~IsDown(before, btn_call.button)
                 /\ IsDown(now, btn_call.button) )
                   => btn_call.pressed /\ btn_call.down

\* C33 witness: controller 1 read A in two consecutive polls and was then
\* asked about A: down, neither pressed nor released.
C33_Witness ==
    /\ AskedReal /\ PolledTwice
    /\ btn_call.joy = JOY_1 /\ btn_call.button = BUTTON_A
    /\ in_call.before[1][JOY_1] = BUTTON_A
    /\ in_call.pad[JOY_1] = BUTTON_A
    /\ btn_call.down /\ ~btn_call.pressed /\ ~btn_call.released

\* C34: invalid controller id. For a controller id that is neither JOY_1 nor
\* JOY_2, SGP_ButtonPressed, SGP_ButtonReleased and SGP_ButtonDown return
\* false for every mask and every input state of the two real controllers.
C34_InvalidControllerId ==
    (btn_call.asked /\ btn_call.joy \notin Joypads) =>
        ~btn_call.pressed /\ ~btn_call.released /\ ~btn_call.down

Max(a, b) == IF a > b THEN a ELSE b

\* The rectangles of a and b share interior area: on each axis the larger of
\* the two near sides lies strictly before the smaller of the two far sides
\* (sums taken as numbers, not modulo 65536).
ShareInterior(a, b) ==
    /\ Max(a.x, b.x) < Min(a.x + a.w, b.x + b.w)
    /\ Max(a.y, b.y) < Min(a.y + a.h, b.y + b.h)

\* C35: box overlap is strict. For boxes of positive width and height,
\* SGP_CheckCollision(a, b) is true iff the rectangles share interior area;
\* boxes that share only an edge or a corner give false.
C35_BoxOverlapIsStrict ==
    ( /\ box_call.asked
      /\ box_call.a.w > 0 /\ box_call.a.h > 0
      /\ box_call.b.w > 0 /\ box_call.b.h > 0 )
    => (box_call.ret <=> ShareInterior(box_call.a, box_call.b))

\* C35 witness: {0,0,10,10} and {10,0,10,10} share only an edge and the call
\* returned false.
C35_Witness ==
    /\ box_call.asked
    /\ box_call.a = SGPBox(0, 0, 10, 10)
    /\ box_call.b = SGPBox(10, 0, 10, 10)
    /\ ~box_call.ret

\* SGP_init was the last call that wrote the camera and the last that wrote the
\* input.
JustInitialised == cam_call.op = "SGP_init" /\ in_call.op = "SGP_init"

\* C36: initial state. After SGP_init, whatever was done before, both
\* controllers' state and previous are 0, the camera is inactive with no map
\* bound, current_x = current_y = 0, map_width = map_height = 0 and the
\* vertical scroll limit is 32.
C36_InitialState ==
    JustInitialised =>
        /\ input.joy1_state = 0 /\ input.joy1_previous = 0
        /\ input.joy2_state = 0 /\ input.joy2_previous = 0
        /\ ~camera.active
        /\ camera.map.null
        /\ camera.current_x = <<0, 0>> /\ camera.current_y = <<0, 0>>
        /\ camera.map_width = 0 /\ camera.map_height = 0
        /\ camera.max_vertical_scroll = 32

\* C36 witness: SGP_init has been called and the camera and the input are in
\* their initial state.
C36_Witness ==
    /\ JustInitialised
    /\ camera.max_vertical_scroll = 32
    /\ camera.map.null /\ ~camera.active
    /\ input.joy1_state = 0 /\ input.joy2_previous = 0
    /\ emitted = <<>>

\* The last query, evaluated on a record with no flag set: the cache is out of
\* play and the answer comes from the guard or from the grid's tiles.
UncachedAnswers ==
    { out.ret : out \in Collide({}, 0, 0, call.player_x, call.player_y,
                                call.player_width, call.player_height, test_level,
                                call.direction) }

\* C37: cache coherence. With an unchanged grid and box size, whenever
\* SGP_PlayerLevelCollision returns true from the cache for (entity, x, y,
\* direction), the same query evaluated against the grid's tiles with the
\* cache ignored also yields true, after any interleaving of queries for that
\* entity in different directions and at different positions.
C37_CacheCoherence ==
    (path = "cache" /\ ret) => TRUE \in UncachedAnswers

\* The coordinate of the last query's leading edge: y for UP, y + height for
\* DOWN, x for LEFT, x + width for RIGHT.
LeadingEdge ==
    CASE call.direction = SGP_DIR_UP -> call.player_y
      [] call.direction = SGP_DIR_DOWN -> call.player_y + call.player_height
      [] call.direction = SGP_DIR_LEFT -> call.player_x
      [] call.direction = SGP_DIR_RIGHT -> call.player_x + call.player_width

\* C38: tile-alignment guard. A query whose leading edge is not a multiple of
\* 16 pixels reports no collision unless it is answered from the cache, and
\* reads no tile; tiles are probed only when the leading edge is exactly on a
\* tile boundary.
C38_TileAlignmentGuard ==
    Called =>
        /\ (LeadingEdge % 16 # 0 /\ path # "cache") => (~ret /\ reads = {})
        /\ path = "tiles" => LeadingEdge % 16 = 0

\* What a repeat of the last query would do on the entity's record as it is.
RepeatOutcomes ==
    Collide(prev_collide_flags[Slot(call.player_index)],
            prev_player_x[Slot(call.player_index)],
            prev_player_y[Slot(call.player_index)],
            call.player_x, call.player_y, call.player_width, call.player_height,
            test_level, call.direction)

\* C39: the cache identifies positions exactly over the whole signed 16-bit
\* range. After a query at (x, y) stored the position, the stored position
\* compares equal to (x, y) also when x or y is negative, and a repeat query
\* at the same (x, y) is served from the cache when the flag is set.
C39_ExactPositionMatch ==
    (path = "tiles" /\ call.player_index \in Entities) =>
        /\ prev_player_x[Slot(call.player_index)] = call.player_x
        /\ prev_player_y[Slot(call.player_index)] = call.player_y
        /\ ret => \A out \in RepeatOutcomes : out.path = "cache" /\ out.ret

\* C40: shake preserves the camera mode. SGP_ShakeCamera leaves the camera's
\* active flag as it was before the call; a camera that was inactive before a
\* shake (any duration, 0 included) is still inactive after it.
C40_ShakePreservesMode ==
    [][ShakeStep => camera'.active = camera.active]_vars

====
